---- MODULE Spec2Model ----
(***************************************************************************)
(* Model of src/controller/camera/services/stream.service.js: one          *)
(* StreamService object per camera, all sharing one session service        *)
(* (admission controller).                                                 *)
(*                                                                         *)
(* Strings are sequences over an alphabet of symbols; a symbol stands for  *)
(* a run of characters that the code never takes apart ("-i", "url", ...). *)
(* The space is the symbol " ", the empty string is << >>.                 *)
(***************************************************************************)
EXTENDS Integers, Sequences, FiniteSets, TLC

\* ---------------------------------------------------------------- bounds
NumCams == 2
MaxSessions == 1
MaxSpawns == 2
MaxTimers == 2
MaxOptCalls == 3
MaxChunks == 3

Cams == 1..NumCams

\* ------------------------------------------------------------ JS strings
Null == 0
NullCode == -1

Str(a) == <<a>>
SP == " "

IndexOfSpace(s) ==
  IF \E i \in 1..Len(s) : s[i] = SP
  THEN CHOOSE i \in 1..Len(s) : s[i] = SP /\ \A j \in 1..(i-1) : s[j] # SP
  ELSE 0

RECURSIVE Split(_)
Split(s) ==
  LET i == IndexOfSpace(s)
  IN IF i = 0 THEN <<s>>
     ELSE <<SubSeq(s, 1, i-1)>> \o Split(SubSeq(s, i+1, Len(s)))

Includes(s, m) ==
  \E i \in 1..(Len(s) - Len(m) + 1) : SubSeq(s, i, i + Len(m) - 1) = m

InputMarker == Str("-i")

FilterNonEmpty_none(xs) == xs

RECURSIVE FilterNonEmpty(_)
FilterNonEmpty(xs) ==
  IF xs = <<>> THEN <<>>
  ELSE IF Head(xs) # <<>> THEN <<Head(xs)>> \o FilterNonEmpty(Tail(xs))
       ELSE FilterNonEmpty(Tail(xs))

\* ------------------------------------------- Option Set (ordered object)
\* A JS object with string keys: a sequence of <<key, value>> pairs in
\* insertion order.
HasKey(o, k) == \E i \in 1..Len(o) : o[i][1] = k

Put_noOverwrite(o, k, v) ==
  IF HasKey(o, k) THEN o ELSE Append(o, <<k, v>>)

Put(o, k, v) ==
  IF HasKey(o, k)
  THEN [i \in 1..Len(o) |-> IF o[i][1] = k THEN <<k, v>> ELSE o[i]]
  ELSE Append(o, <<k, v>>)

RECURSIVE Delete(_, _)
Delete(o, k) ==
  IF o = <<>> THEN <<>>
  ELSE IF Head(o)[1] = k THEN Delete(Tail(o), k)
       ELSE <<Head(o)>> \o Delete(Tail(o), k)

RECURSIVE PutAll(_, _)
PutAll(o, kvs) ==
  IF kvs = <<>> THEN o
  ELSE PutAll(Put(o, Head(kvs)[1], Head(kvs)[2]), Tail(kvs))

DeleteAll_firstOnly(o, ks) ==
  IF ks = <<>> THEN o ELSE Delete(o, Head(ks))

RECURSIVE DeleteAll(_, _)
DeleteAll(o, ks) ==
  IF ks = <<>> THEN o
  ELSE DeleteAll(Delete(o, Head(ks)), Tail(ks))

AudioBundle ==
  << <<"-codec:a", Str("mp2")>>, <<"-ar", Str("44100")>>,
     <<"-ac", Str("1")>>, <<"-b:a", Str("128k")>> >>

\* ------------------------------------------------- camera configurations
\* camera.videoConfig; an absent (falsy) optional field is the empty string.
CameraConfigs ==
  { [source |-> <<"-i", SP, "url">>, size |-> Str("1280x720"),
     maxBitrate |-> Str("300"), maxFPS |-> Str("15"),
     encoderOptions |-> Str("ultrafast"), mapvideo |-> <<>>,
     videoFilter |-> <<>>, audio |-> FALSE, mapaudio |-> <<>>,
     debug |-> FALSE],
    [source |-> <<"-re", SP, SP, "-i", SP, "url">>, size |-> Str("640x480"),
     maxBitrate |-> Str("299"), maxFPS |-> Str("20"),
     encoderOptions |-> Str("ultrafast"), mapvideo |-> Str("0:0"),
     videoFilter |-> Str("scale"), audio |-> TRUE, mapaudio |-> Str("0:1"),
     debug |-> TRUE] }

Constructor(cfg) ==
  LET base == << <<"-s", cfg.size>>, <<"-b:v", cfg.maxBitrate>>,
                 <<"-r", cfg.maxFPS>>, <<"-bf", Str("0")>>,
                 <<"-preset", cfg.encoderOptions>>, <<"-threads", Str("1")>>,
                 <<"-loglevel", Str("error")>> >>
      o1 == IF cfg.mapvideo # <<>> THEN Put(base, "-map", cfg.mapvideo) ELSE base
      o2 == IF cfg.videoFilter # <<>> THEN Put(o1, "-filter:v", cfg.videoFilter) ELSE o1
      o3 == IF cfg.audio
            THEN LET a == PutAll(Delete(o2, "-an"), AudioBundle)
                 IN IF cfg.mapaudio # <<>> THEN Put(a, "-map", cfg.mapaudio) ELSE a
            ELSE o2
  IN [source |-> cfg.source, ffmpegOptions |-> o3]

\* ------------------------------------------------ argument list (start)
RECURSIVE AdditionalFlags(_)
AdditionalFlags(o) ==
  IF o = <<>> THEN <<>>
  ELSE <<Str(Head(o)[1]), Head(o)[2]>> \o AdditionalFlags(Tail(o))

SpawnOptions(so) ==
  FilterNonEmpty(
    Split(so.source)
    \o <<Str("-f"), Str("mpegts"), Str("-codec:v"), Str("mpeg1video")>>
    \o AdditionalFlags(so.ffmpegOptions)
    \o <<Str("-q"), Str("1"), Str("-hide_banner"),
         Str("-max_muxing_queue_size"), Str("1024"), Str("-")>>)

\* ------------------------------------------------------------------ state
VARIABLES
  streamOptions,   \* [Cams -> [source, ffmpegOptions]]   this.streamOptions
  streamSession,   \* [Cams -> pid or Null]               this.streamSession
  sessions,        \* slots handed out by the session service
  procs,           \* child processes that have not delivered 'exit'
  failed,          \* children whose launch failed, 'error' event not yet emitted
  nextPid,         \* next child id
  timers,          \* [Cams -> Seq] pending setTimeout(() => this.start(), 1500)
  held,            \* [Cams -> Nat] grants of a session not yet closed (history)
  lastCall,        \* the handler that ran last and what it did (history)
  history,         \* the calls made on the Option Set so far (history)
  relay            \* the children's output streams, the broadcast channel, the log

vars == <<streamOptions, streamSession, sessions, procs, failed, nextPid,
          timers, held, lastCall, history, relay>>

SpawnOutcomes == {"ok", "throw", "enoent"}

\* admission: "none" (requestSession not called), "granted", "denied";
\* spawn: "none" (spawn not called) or its outcome
Call(op, c, arg, logs, threw, admission, spawn, stamp) ==
  [op |-> op, cam |-> c, arg |-> arg, logs |-> logs, threw |-> threw,
   admission |-> admission, spawn |-> spawn, stamp |-> stamp]

ConfigOf(c) ==
  CHOOSE cfg \in CameraConfigs : cfg.audio = (c % 2 = 0)

Pids == 1..MaxSpawns

\* this.debug of every camera; no child has written anything, nothing was
\* published or logged
NoRelay(debug) ==
  [debug |-> debug,
   pipeOut |-> [p \in Pids |-> <<>>], pipeErr |-> [p \in Pids |-> <<>>],
   emitted |-> [p \in Pids |-> <<>>], written |-> 0,
   channel |-> [c \in Cams |-> <<>>], logged |-> <<>>]

Init ==
  /\ streamOptions = [c \in Cams |-> Constructor(ConfigOf(c))]
  /\ streamSession = [c \in Cams |-> Null]
  /\ sessions = 0
  /\ procs = {}
  /\ failed = {}
  /\ nextPid = 1
  /\ timers = [c \in Cams |-> <<>>]
  /\ held = [c \in Cams |-> 0]
  /\ lastCall = Call("constructor", NumCams, <<>>, <<"debug">>, FALSE, "none", "none", 0)
  /\ history = <<>>
  /\ relay = NoRelay([c \in Cams |-> ConfigOf(c).debug])

\* -------------------------------------------------------- session service
\* sessionService.requestSession() / closeSession(): a counter of capacity
\* MaxSessions.
RequestGranted == sessions < MaxSessions

SessionsAfterRequest == IF RequestGranted THEN sessions + 1 ELSE sessions

SessionsAfterClose == sessions - 1

\* ------------------------------------------------------------- start()
SessionAbsent_always(c) == TRUE

SessionAbsent(c) == streamSession[c] = Null

SpawnIfAllowed_ignored(allowStream) == TRUE

SpawnIfAllowed(allowStream) == allowStream

\* The body of start() run for camera c as handler `op`; `outcome` is what
\* child_process.spawn does if it is reached.
StartBody(c, outcome, op, stamp) ==
  IF ~SessionAbsent(c)
  THEN /\ lastCall' = Call(op, c, <<>>, <<>>, FALSE, "none", "none", stamp)
       /\ UNCHANGED <<streamSession, sessions, procs, failed, nextPid, held>>
  ELSE LET allowStream == RequestGranted
           granted == IF allowStream THEN 1 ELSE 0
           adm == IF allowStream THEN "granted" ELSE "denied"
       IN /\ sessions' = SessionsAfterRequest
          /\ held' = [held EXCEPT ![c] = @ + granted]
          /\ IF ~SpawnIfAllowed(allowStream)
             THEN /\ lastCall' = Call(op, c, <<>>, <<"error">>, FALSE, adm, "none", stamp)
                  /\ UNCHANGED <<streamSession, procs, failed, nextPid>>
             ELSE CASE outcome = "ok" ->
                         /\ streamSession' = [streamSession EXCEPT ![c] = nextPid]
                         /\ procs' = procs \cup
                              {[pid |-> nextPid, cam |-> c, signalled |-> FALSE,
                                args |-> SpawnOptions(streamOptions[c])]}
                         /\ nextPid' = nextPid + 1
                         /\ lastCall' = Call(op, c, <<>>, <<"debug">>, FALSE, adm, "ok", stamp)
                         /\ UNCHANGED failed
                    [] outcome = "throw" ->
                         /\ lastCall' = Call(op, c, <<>>, <<"debug">>, TRUE, adm, "throw", stamp)
                         /\ UNCHANGED <<streamSession, procs, failed, nextPid>>
                    [] outcome = "enoent" ->
                         /\ streamSession' = [streamSession EXCEPT ![c] = nextPid]
                         /\ failed' = failed \cup {[pid |-> nextPid, cam |-> c]}
                         /\ nextPid' = nextPid + 1
                         /\ lastCall' = Call(op, c, <<>>, <<"debug">>, FALSE, adm, "enoent", stamp)
                         /\ UNCHANGED procs

Start(c) ==
  /\ nextPid <= MaxSpawns
  /\ \E outcome \in SpawnOutcomes : StartBody(c, outcome, "start", 0)
  /\ UNCHANGED <<streamOptions, timers>>
  /\ UNCHANGED <<history, relay>>

\* -------------------------------------------------------------- stop()
Kill(c) ==
  {IF p.pid = streamSession[c] THEN [p EXCEPT !.signalled = TRUE] ELSE p : p \in procs}

Stop_releasesEarly(c) ==
  /\ IF streamSession[c] # Null
     THEN /\ procs' = Kill(c)
          /\ streamSession' = [streamSession EXCEPT ![c] = Null]
          /\ sessions' = sessions - 1
          /\ held' = [held EXCEPT ![c] = @ - 1]
          /\ lastCall' = Call("stop", c, <<>>, <<"debug">>, FALSE, "none", "none", 0)
     ELSE /\ UNCHANGED <<procs, streamSession, sessions, held>>
          /\ lastCall' = Call("stop", c, <<>>, <<>>, FALSE, "none", "none", 0)
  /\ UNCHANGED <<streamOptions, failed, nextPid, timers>>
  /\ UNCHANGED <<history, relay>>

Stop_cancelsTimer(c) ==
  /\ IF streamSession[c] # Null
     THEN /\ procs' = Kill(c)
          /\ lastCall' = Call("stop", c, <<>>, <<"debug">>, FALSE, "none", "none", 0)
     ELSE /\ procs' = procs
          /\ lastCall' = Call("stop", c, <<>>, <<>>, FALSE, "none", "none", 0)
  /\ timers' = [timers EXCEPT ![c] = <<>>]
  /\ UNCHANGED <<streamOptions, streamSession, sessions, failed, nextPid, held>>
  /\ UNCHANGED <<history, relay>>

Stop(c) ==
  /\ IF streamSession[c] # Null
     THEN /\ procs' = Kill(c)
          /\ lastCall' = Call("stop", c, <<>>, <<"debug">>, FALSE, "none", "none", 0)
     ELSE /\ procs' = procs
          /\ lastCall' = Call("stop", c, <<>>, <<>>, FALSE, "none", "none", 0)
  /\ UNCHANGED <<streamOptions, streamSession, sessions, failed, nextPid, timers, held>>
  /\ UNCHANGED <<history, relay>>

\* ----------------------------------------------------------- restart()
Restart(c) ==
  /\ nextPid <= MaxSpawns
  /\ IF streamSession[c] # Null
     THEN /\ Len(timers[c]) < MaxTimers
          /\ procs' = Kill(c)
          /\ timers' = [timers EXCEPT ![c] = Append(@, nextPid)]
          /\ lastCall' = Call("restart", c, <<>>, <<"debug">>, FALSE, "none", "none", nextPid)
          /\ UNCHANGED <<streamSession, sessions, failed, nextPid, held>>
     ELSE /\ \E outcome \in SpawnOutcomes : StartBody(c, outcome, "restart", 0)
          /\ UNCHANGED timers
  /\ UNCHANGED streamOptions
  /\ UNCHANGED <<history, relay>>

\* the callback of setTimeout(() => this.start(), 1500)
DeferredStart(c) ==
  /\ nextPid <= MaxSpawns
  /\ timers[c] # <<>>
  /\ timers' = [timers EXCEPT ![c] = Tail(@)]
  /\ \E outcome \in SpawnOutcomes :
       StartBody(c, outcome, "deferredStart", Head(timers[c]))
  /\ UNCHANGED streamOptions
  /\ UNCHANGED <<history, relay>>

\* ------------------------------------------------------ child's events
ExitOutcomes ==
  {<<0, "null">>, <<1, "null">>, <<255, "null">>, <<NullCode, "SIGTERM">>}

ExitLog_nonzero(code) ==
  IF code # 0 /\ code # NullCode THEN "error" ELSE "debug"

ExitLog(code) == IF code = 1 THEN "error" ELSE "debug"

Exit(p, code, signal) ==
  /\ p \in procs
  /\ lastCall' = Call("exit", p.cam, <<code, signal>>, <<ExitLog(code)>>, FALSE, "none", "none", p.pid)
  /\ streamSession' = [streamSession EXCEPT ![p.cam] = Null]
  /\ sessions' = SessionsAfterClose
  /\ held' = [held EXCEPT ![p.cam] = @ - 1]
  /\ procs' = procs \ {p}
  /\ UNCHANGED <<streamOptions, failed, nextPid, timers>>
  /\ UNCHANGED <<history, relay>>

\* 'error' of a child that could not be launched: no listener is registered,
\* the EventEmitter throws it.
ChildError(f) ==
  /\ f \in failed
  /\ failed' = failed \ {f}
  /\ lastCall' = Call("childError", f.cam, <<>>, <<>>, TRUE, "none", "none", f.pid)
  /\ UNCHANGED <<streamOptions, streamSession, sessions, procs, nextPid, timers, held>>
  /\ UNCHANGED <<history, relay>>

\* ---------------------------------------------------- setStreamSource()
Sources == { <<"-i", SP, "url2">>, <<"url2">> }

\* source.inludes is undefined on a string: the call throws a TypeError before
\* either branch is taken.
SetStreamSource(c, source) ==
  /\ lastCall' = Call("setStreamSource", c, source, <<>>, TRUE, "none", "none", 0)
  /\ UNCHANGED <<streamOptions, streamSession, sessions, procs, failed, nextPid,
                 timers, held>>
  /\ UNCHANGED <<history, relay>>

Next ==
  \/ \E c \in Cams : Start(c)
  \/ \E c \in Cams : Stop(c)
  \/ \E c \in Cams : Restart(c)
  \/ \E c \in Cams : DeferredStart(c)
  \/ \E p \in procs : \E o \in ExitOutcomes : Exit(p, o[1], o[2])
  \/ \E f \in failed : ChildError(f)
  \/ \E c \in Cams : \E s \in Sources : SetStreamSource(c, s)

Spec == Init /\ [][Next]_vars

\* ------------------------------------------------- the Option Set layers
BundleKeys == {"-codec:a", "-ar", "-ac", "-b:a"}

\* the record of this camera in the persisted settings (cameraSetting), or
\* none (present = FALSE); an unset resolution is the empty string
Settings ==
  { [present |-> FALSE, resolution |-> <<>>, audio |-> FALSE],
    [present |-> TRUE, resolution |-> <<>>, audio |-> TRUE],
    [present |-> TRUE, resolution |-> <<>>, audio |-> FALSE],
    [present |-> TRUE, resolution |-> Str("320x240"), audio |-> TRUE] }

ConfigureOptions_keepsAn(o, s) ==
  IF ~s.present THEN o
  ELSE LET o1 == IF s.resolution # <<>> THEN Put(o, "-s", s.resolution) ELSE o
       IN IF s.audio
          THEN PutAll(o1, AudioBundle)
          ELSE Put(DeleteAll(o1, <<"-codec:a", "-ar", "-ac", "-b:a">>), "-an", <<>>)

ConfigureOptions_noBareAn(o, s) ==
  IF ~s.present THEN o
  ELSE LET o1 == IF s.resolution # <<>> THEN Put(o, "-s", s.resolution) ELSE o
       IN IF s.audio
          THEN PutAll(Delete(o1, "-an"), AudioBundle)
          ELSE DeleteAll(o1, <<"-codec:a", "-ar", "-ac", "-b:a">>)

\* lines 76-99 of configureStreamOptions() on the Option Set o, for the
\* settings record s read from the database
ConfigureOptions(o, s) ==
  IF ~s.present THEN o
  ELSE LET o1 == IF s.resolution # <<>> THEN Put(o, "-s", s.resolution) ELSE o
       IN IF s.audio
          THEN PutAll(Delete(o1, "-an"), AudioBundle)
          ELSE Put(DeleteAll(o1, <<"-codec:a", "-ar", "-ac", "-b:a">>), "-an", <<>>)

\* arguments of setStreamOptions (Object.entries order) and delStreamOptions
OptionMaps ==
  { << <<"-s", Str("800x600")>>, <<"-an", <<>> >> >>,
    << <<"-r", Str("10")>>, <<"-codec:a", Str("aac")>> >> }

OptionLists == { <<"-an", "-s">> }

\* the camera whose Option Set is exercised
Focus == {c \in Cams : \A d \in Cams : c <= d}

OptCall(op, c, arg, before) ==
  [op |-> op, cam |-> c, arg |-> arg, before |-> before]

InitOptions ==
  /\ \E cfg \in CameraConfigs :
       streamOptions = [c \in Cams |-> IF c \in Focus THEN Constructor(cfg)
                                       ELSE Constructor(ConfigOf(c))]
  /\ streamSession = [c \in Cams |-> Null]
  /\ sessions = 0
  /\ procs = {}
  /\ failed = {}
  /\ nextPid = 1
  /\ timers = [c \in Cams |-> <<>>]
  /\ held = [c \in Cams |-> 0]
  /\ lastCall = Call("constructor", NumCams, <<>>, <<"debug">>, FALSE, "none", "none", 0)
  /\ history = <<>>
  /\ relay = NoRelay([c \in Cams |-> ConfigOf(c).debug])

ConfigureStreamOptions(c, s) ==
  /\ Len(history) < MaxOptCalls
  /\ streamOptions' = [streamOptions EXCEPT
                         ![c].ffmpegOptions = ConfigureOptions(@, s)]
  /\ history' = Append(history, OptCall("configureStreamOptions", c, s,
                                        streamOptions[c].ffmpegOptions))
  /\ lastCall' = Call("configureStreamOptions", c, <<>>, <<>>, FALSE, "none", "none", 0)
  /\ UNCHANGED <<streamSession, sessions, procs, failed, nextPid, timers, held, relay>>

SetStreamOptions(c, options) ==
  /\ Len(history) < MaxOptCalls
  /\ streamOptions' = [streamOptions EXCEPT ![c].ffmpegOptions = PutAll(@, options)]
  /\ history' = Append(history, OptCall("setStreamOptions", c, options,
                                        streamOptions[c].ffmpegOptions))
  /\ lastCall' = Call("setStreamOptions", c, <<>>, <<>>, FALSE, "none", "none", 0)
  /\ UNCHANGED <<streamSession, sessions, procs, failed, nextPid, timers, held, relay>>

DelStreamOptions(c, options) ==
  /\ Len(history) < MaxOptCalls
  /\ streamOptions' = [streamOptions EXCEPT ![c].ffmpegOptions = DeleteAll(@, options)]
  /\ history' = Append(history, OptCall("delStreamOptions", c, options,
                                        streamOptions[c].ffmpegOptions))
  /\ lastCall' = Call("delStreamOptions", c, <<>>, <<>>, FALSE, "none", "none", 0)
  /\ UNCHANGED <<streamSession, sessions, procs, failed, nextPid, timers, held, relay>>

NextOptions ==
  \/ \E c \in Focus : \E s \in Settings : ConfigureStreamOptions(c, s)
  \/ \E c \in Focus : \E o \in OptionMaps : SetStreamOptions(c, o)
  \/ \E c \in Focus : \E o \in OptionLists : DelStreamOptions(c, o)
  \/ \E c \in Focus : Start(c)
  \/ \E p \in procs : Exit(p, 0, "null")

SpecOptions == InitOptions /\ [][NextOptions]_vars

\* ------------------------------------------------------- output relay
Chunk(p, fd) == [pid |-> p.pid, cam |-> p.cam, fd |-> fd, n |-> relay.written + 1]

\* a live child writes a chunk to its primary / diagnostic output
WriteStdout(p) ==
  /\ p \in procs
  /\ relay.written < MaxChunks
  /\ relay' = [relay EXCEPT !.pipeOut[p.pid] = Append(@, Chunk(p, "stdout")),
                            !.emitted[p.pid] = Append(@, Chunk(p, "stdout")),
                            !.written = @ + 1]
  /\ UNCHANGED <<streamOptions, streamSession, sessions, procs, failed, nextPid,
                 timers, held, lastCall, history>>

WriteStderr(p) ==
  /\ p \in procs
  /\ relay.written < MaxChunks
  /\ relay' = [relay EXCEPT !.pipeErr[p.pid] = Append(@, Chunk(p, "stderr")),
                            !.written = @ + 1]
  /\ UNCHANGED <<streamOptions, streamSession, sessions, procs, failed, nextPid,
                 timers, held, lastCall, history>>

\* streamSession.stdout.on('data'): the oldest undelivered chunk of child pid
StdoutData(pid) ==
  /\ relay.pipeOut[pid] # <<>>
  /\ LET data == Head(relay.pipeOut[pid])
         echo == relay.debug[data.cam]
     IN /\ relay' = [relay EXCEPT
                       !.pipeOut[pid] = Tail(@),
                       !.channel[data.cam] = Append(@, data),
                       !.logged = IF echo THEN Append(@, <<"debug", data>>) ELSE @]
        /\ lastCall' = Call("stdoutData", data.cam, <<>>,
                            IF echo THEN <<"debug">> ELSE <<>>,
                            FALSE, "none", "none", pid)
  /\ UNCHANGED <<streamOptions, streamSession, sessions, procs, failed, nextPid,
                 timers, held, history>>

StderrData_publishes(pid) ==
  /\ relay.pipeErr[pid] # <<>>
  /\ LET data == Head(relay.pipeErr[pid])
     IN /\ relay' = [relay EXCEPT !.pipeErr[pid] = Tail(@),
                                  !.channel[data.cam] = Append(@, data),
                                  !.logged = Append(@, <<"error", data>>)]
        /\ lastCall' = Call("stderrData", data.cam, <<>>, <<"error">>,
                            FALSE, "none", "none", pid)
  /\ UNCHANGED <<streamOptions, streamSession, sessions, procs, failed, nextPid,
                 timers, held, history>>

\* streamSession.stderr.on('data')
StderrData(pid) ==
  /\ relay.pipeErr[pid] # <<>>
  /\ LET data == Head(relay.pipeErr[pid])
     IN /\ relay' = [relay EXCEPT !.pipeErr[pid] = Tail(@),
                                  !.logged = Append(@, <<"error", data>>)]
        /\ lastCall' = Call("stderrData", data.cam, <<>>, <<"error">>,
                            FALSE, "none", "none", pid)
  /\ UNCHANGED <<streamOptions, streamSession, sessions, procs, failed, nextPid,
                 timers, held, history>>

InitRelay ==
  /\ \E cfg \in CameraConfigs :
       /\ streamOptions = [c \in Cams |-> IF c \in Focus THEN Constructor(cfg)
                                          ELSE Constructor(ConfigOf(c))]
       /\ relay = NoRelay([c \in Cams |-> IF c \in Focus THEN cfg.debug
                                          ELSE ConfigOf(c).debug])
  /\ streamSession = [c \in Cams |-> Null]
  /\ sessions = 0
  /\ procs = {}
  /\ failed = {}
  /\ nextPid = 1
  /\ timers = [c \in Cams |-> <<>>]
  /\ held = [c \in Cams |-> 0]
  /\ lastCall = Call("constructor", NumCams, <<>>, <<"debug">>, FALSE, "none", "none", 0)
  /\ history = <<>>

NextRelay ==
  \/ \E c \in Focus : Start(c)
  \/ \E c \in Focus : Stop(c)
  \/ \E p \in procs : Exit(p, 0, "null")
  \/ \E p \in procs : WriteStdout(p)
  \/ \E p \in procs : WriteStderr(p)
  \/ \E pid \in Pids : StdoutData(pid)
  \/ \E pid \in Pids : StderrData(pid)

SpecRelay == InitRelay /\ [][NextRelay]_vars

\* ====================================================== properties
Live(c) == {p \in procs : p.cam = c}

\* C1: slot conservation: every grant of a session is released exactly once,
\* in the exit handling of the process spawned under it: the grants a session
\* has outstanding are exactly its processes that have not yet exited (never
\* a grant without a live process, never a release without a grant).
C1_SlotConservation ==
  \A c \in Cams : held[c] = Cardinality(Live(c))

\* C2: with the sessions sharing one controller of capacity MaxSessions, at
\* most MaxSessions sessions have a live process, and every live process was
\* started under a grant its session still holds.
C2_AdmissionLimit ==
  /\ Cardinality({c \in Cams : Live(c) # {}}) <= MaxSessions
  /\ \A p \in procs : held[p.cam] >= 1

C2_Witness ==
  /\ Cardinality({c \in Cams : Live(c) # {}}) = MaxSessions
  /\ lastCall.op = "start"
  /\ lastCall.admission = "denied"
  /\ Live(lastCall.cam) = {}

\* C3: start() on a session whose handle is present is a no-op: it requests
\* no slot, spawns nothing and changes no state of any session.
C3_StartIdempotent ==
  [][\A c \in Cams :
       (lastCall'.op = "start" /\ lastCall'.cam = c /\ streamSession[c] # Null)
       => /\ lastCall'.admission = "none"
          /\ lastCall'.spawn = "none"
          /\ UNCHANGED <<streamOptions, streamSession, sessions, procs, failed,
                         nextPid, timers, held>>]_vars

C3_Witness ==
  /\ lastCall.op = "start"
  /\ lastCall.admission = "none"
  /\ Live(lastCall.cam) # {}
  /\ streamSession[lastCall.cam] # Null

\* C4: start() on an Idle session that is denied a slot spawns nothing, leaves
\* the handle absent, releases and acquires no slot, logs an error and does
\* not throw.
C4_DenialKeepsIdle ==
  [][\A c \in Cams :
       (lastCall'.op = "start" /\ lastCall'.cam = c /\ streamSession[c] = Null
        /\ ~RequestGranted)
       => /\ lastCall'.spawn = "none"
          /\ lastCall'.logs = <<"error">>
          /\ ~lastCall'.threw
          /\ UNCHANGED <<streamOptions, streamSession, sessions, procs, failed,
                         nextPid, timers, held>>]_vars

C4_Witness ==
  /\ lastCall.op = "start"
  /\ lastCall.admission = "denied"
  /\ lastCall.logs = <<"error">>
  /\ streamSession[lastCall.cam] = Null
  /\ sessions = MaxSessions

\* C5: once the deferred start() of a restart() has run, the session is
\* Running with a process spawned after the restart() call.
C5_RestartSpawnsNew ==
  lastCall.op = "deferredStart"
  => \E p \in Live(lastCall.cam) :
       /\ p.pid >= lastCall.stamp
       /\ streamSession[lastCall.cam] = p.pid

\* C6: a session never has two processes that have not yet delivered their
\* exit notification.
C6_OneProcessPerSession ==
  \A c \in Cams : Cardinality(Live(c)) <= 1

C6_Witness ==
  /\ lastCall.op = "deferredStart"
  /\ lastCall.spawn = "ok"
  /\ timers[lastCall.cam] # <<>>
  /\ Cardinality(Live(lastCall.cam)) = 1

\* C7: setStreamSource(s) with s lacking the input marker leaves source, the
\* handle and the slot unchanged, logs a warning and does not throw.
C7_InvalidSourceRejected ==
  [][(lastCall'.op = "setStreamSource" /\ ~Includes(lastCall'.arg, InputMarker))
     => /\ lastCall'.logs = <<"warn">>
        /\ ~lastCall'.threw
        /\ UNCHANGED <<streamOptions, streamSession, sessions, procs, held>>]_vars

\* C8: setStreamSource(s) with s containing the input marker replaces source
\* by s without stopping or starting a process and without throwing, and a
\* process spawned by start() has the non-empty tokens of the current source
\* as its leading arguments.
C8_ValidSourceAccepted ==
  /\ [][(lastCall'.op = "setStreamSource" /\ Includes(lastCall'.arg, InputMarker))
        => /\ streamOptions'[lastCall'.cam].source = lastCall'.arg
           /\ ~lastCall'.threw
           /\ UNCHANGED <<streamSession, sessions, procs, held>>]_vars
  /\ [][\A p \in procs' \ procs :
          LET toks == FilterNonEmpty(Split(streamOptions[p.cam].source))
          IN SubSeq(p.args, 1, Len(toks)) = toks]_vars

\* C9: a spawn failure (spawn throws after the grant, or the child emits
\* 'error' and never 'exit') is handled: nothing is thrown, the session is
\* left without a handle and without a held slot.
C9_SpawnFailureLeavesIdle ==
  (lastCall.spawn = "throw" \/ lastCall.op = "childError")
  => /\ ~lastCall.threw
     /\ streamSession[lastCall.cam] = Null
     /\ held[lastCall.cam] = 0

\* C10: between handlers, a session's handle is present if and only if the
\* session holds exactly one slot.
C10_HandleIffSlot ==
  \A c \in Cams : (streamSession[c] # Null) <=> (held[c] = 1)

\* C11: stop() changes no state synchronously: on a session with a handle it
\* only signals the session's process (handle, slot, options, timers stay as
\* they are, and the handle is cleared by nothing but the exit handler); on an
\* Idle session it signals nothing, logs nothing and changes nothing.
C11_StopOnlySignals ==
  [][\A c \in Cams :
       /\ (lastCall'.op = "stop" /\ lastCall'.cam = c)
          => /\ UNCHANGED <<streamOptions, streamSession, sessions, failed,
                            nextPid, timers, held>>
             /\ IF streamSession[c] # Null
                THEN procs' = {IF p.cam = c THEN [p EXCEPT !.signalled = TRUE]
                                            ELSE p : p \in procs}
                ELSE procs' = procs /\ lastCall'.logs = <<>>
       /\ (streamSession[c] # Null /\ streamSession'[c] = Null)
          => (lastCall'.op = "exit" /\ lastCall'.cam = c)]_vars

C11_Witness ==
  /\ lastCall.op = "stop"
  /\ streamSession[lastCall.cam] # Null
  /\ held[lastCall.cam] = 1
  /\ \E p \in Live(lastCall.cam) : p.signalled /\ p.pid = streamSession[lastCall.cam]

\* C17 (as stated): the exit is logged as an error exactly when the process
\* reported a failure (non-zero) exit code, at debug level otherwise; in both
\* cases the handle is cleared and the slot released.
C17_FailureCodeIsError ==
  [][lastCall'.op = "exit"
     => /\ (lastCall'.logs = <<"error">>)
             <=> (lastCall'.arg[1] # 0 /\ lastCall'.arg[1] # NullCode)
        /\ lastCall'.logs \in {<<"error">>, <<"debug">>}
        /\ streamSession'[lastCall'.cam] = Null
        /\ sessions' = sessions - 1]_vars

\* C17 (amended): the exit is logged as an error exactly when the exit code is
\* 1; every other outcome (code 0, any other non-zero code such as 255, or a
\* terminating signal) is logged at debug level. In both cases the handle is
\* cleared, the process is gone and one slot of the session is released.
C17_ExitClassification ==
  [][lastCall'.op = "exit"
     => /\ (lastCall'.logs = <<"error">>) <=> (lastCall'.arg[1] = 1)
        /\ lastCall'.logs \in {<<"error">>, <<"debug">>}
        /\ streamSession'[lastCall'.cam] = Null
        /\ sessions' = sessions - 1
        /\ held'[lastCall'.cam] = held[lastCall'.cam] - 1
        /\ {p.pid : p \in procs} \ {p.pid : p \in procs'} = {lastCall'.stamp}]_vars

C17_Witness ==
  /\ lastCall.op = "exit"
  /\ lastCall.arg = <<255, "null">>
  /\ lastCall.logs = <<"debug">>
  /\ streamSession[lastCall.cam] = Null
  /\ held[lastCall.cam] = 0

HasFlag(o, k, v) == \E i \in 1..Len(o) : o[i] = <<k, v>>

\* C19: the constructed Option Set carries the video input map selector when
\* mapvideo is configured and the audio input map selector when audio is
\* enabled and mapaudio is configured (both of them when both apply).
C19_InputMapsPresent ==
  lastCall.op = "constructor"
  => \A c \in Cams :
       LET cfg == ConfigOf(c)
           o == streamOptions[c].ffmpegOptions
       IN /\ cfg.mapvideo # <<>> => HasFlag(o, "-map", cfg.mapvideo)
          /\ (cfg.audio /\ cfg.mapaudio # <<>>) => HasFlag(o, "-map", cfg.mapaudio)

\* C20: a restart() on a session with a handle schedules exactly one deferred
\* start(); a pending deferred start is removed only by running it (stop() and
\* the exit handler cancel nothing); when it runs it reaches spawn if and only
\* if the handle is absent and a slot is granted; and a child is spawned only
\* by start(), restart() or a deferred start (never by the exit handler).
C20_DeferredStartNeverCancelled ==
  [][\A c \in Cams :
       /\ (lastCall'.op = "restart" /\ lastCall'.cam = c /\ streamSession[c] # Null)
          => Len(timers'[c]) = Len(timers[c]) + 1
       /\ Len(timers'[c]) < Len(timers[c])
          => /\ lastCall'.op = "deferredStart" /\ lastCall'.cam = c
             /\ Len(timers'[c]) = Len(timers[c]) - 1
       /\ (lastCall'.op = "deferredStart" /\ lastCall'.cam = c
           /\ Len(timers'[c]) < Len(timers[c]))
          => ((lastCall'.spawn # "none")
                <=> (streamSession[c] = Null /\ RequestGranted))
       /\ nextPid' # nextPid
          => lastCall'.op \in {"start", "restart", "deferredStart"}]_vars

C20_Witness ==
  /\ lastCall.op = "deferredStart"
  /\ lastCall.spawn = "ok"
  /\ \E p \in Live(lastCall.cam) : ~p.signalled /\ p.pid >= lastCall.stamp

\* ------------------------------------------ properties of the Option Set
Opts(c) == streamOptions[c].ffmpegOptions

Keys(o) == {o[i][1] : i \in 1..Len(o)}

Range(s) == {s[i] : i \in 1..Len(s)}

AbsentValue == <<"(absent)">>

Lookup(o, k) ==
  IF HasKey(o, k) THEN o[CHOOSE i \in 1..Len(o) : o[i][1] = k][2] ELSE AbsentValue

NoAudioConflict(o) ==
  ~(HasKey(o, "-an") /\ \E k \in BundleKeys : HasKey(o, k))

\* C12 (as stated): the Option Set never holds '-an' together with an audio
\* bundle flag, after construction and after every sequence of
\* configureStreamOptions(), setStreamOptions() and delStreamOptions() calls.
C12_NoAudioConflict ==
  \A c \in Cams : NoAudioConflict(Opts(c))

\* C12 (amended): the Option Set never holds '-an' together with an audio
\* bundle flag after construction and after every sequence of
\* configureStreamOptions() and delStreamOptions() calls (no
\* setStreamOptions() call, which inserts whatever flags it is given).
C12_NoAudioConflictWithoutSet ==
  (\A i \in 1..Len(history) : history[i].op # "setStreamOptions")
  => \A c \in Cams : NoAudioConflict(Opts(c))

C12_Witness ==
  /\ Len(history) >= 2
  /\ \A i \in 1..Len(history) : history[i].op # "setStreamOptions"
  /\ \E i \in 1..Len(history) :
       /\ history[i].op = "configureStreamOptions"
       /\ history[i].arg.present
       /\ ~history[i].arg.audio
       /\ HasKey(history[i].before, "-codec:a")
  /\ \E c \in Focus : HasKey(Opts(c), "-an")

IsNonAudio(e) == e[1] \notin (BundleKeys \cup {"-an"})

NonAudio(o) == SelectSeq(o, IsNonAudio)

IsNotSize(e) == e[1] # "-s"

AudioOff(o) ==
  /\ \A k \in BundleKeys : ~HasKey(o, k)
  /\ Cardinality({i \in 1..Len(o) : o[i][1] = "-an"}) = 1
  /\ HasFlag(o, "-an", <<>>)

AudioOn(o) ==
  /\ \A i \in 1..Len(AudioBundle) : HasFlag(o, AudioBundle[i][1], AudioBundle[i][2])
  /\ ~HasKey(o, "-an")

\* the last two calls on the Option Set were configureStreamOptions() with a
\* settings record, the first with audio = a1 and the second with audio = a2
Toggled(a1, a2) ==
  /\ Len(history) >= 2
  /\ LET h1 == history[Len(history) - 1]
         h2 == history[Len(history)]
     IN /\ h1.op = "configureStreamOptions" /\ h2.op = "configureStreamOptions"
        /\ h1.cam = h2.cam
        /\ h1.arg.present /\ h2.arg.present
        /\ h1.arg.audio = a1 /\ h2.arg.audio = a2

\* C13 (as stated): audio enabled then disabled leaves no audio bundle flag
\* and exactly one bare '-an'; disabled then enabled leaves the full bundle and
\* no '-an'; all non-audio flags are as before the two calls.
C13_AudioToggleRoundTrip ==
  LET h1 == history[Len(history) - 1]
      cur == Opts(h1.cam)
  IN /\ Toggled(TRUE, FALSE) => AudioOff(cur) /\ NonAudio(cur) = NonAudio(h1.before)
     /\ Toggled(FALSE, TRUE) => AudioOn(cur) /\ NonAudio(cur) = NonAudio(h1.before)

\* C13 (amended): as above, except that of the non-audio flags '-s' takes the
\* persisted resolution when one of the two settings records specifies one;
\* all other non-audio flags are as before the two calls.
C13_AudioToggleKeepsOtherFlags ==
  LET h1 == history[Len(history) - 1]
      h2 == history[Len(history)]
      cur == Opts(h1.cam)
      size == IF h2.arg.resolution # <<>> THEN h2.arg.resolution
              ELSE IF h1.arg.resolution # <<>> THEN h1.arg.resolution
              ELSE Lookup(h1.before, "-s")
      rest == /\ SelectSeq(NonAudio(cur), IsNotSize)
                   = SelectSeq(NonAudio(h1.before), IsNotSize)
              /\ Lookup(cur, "-s") = size
  IN /\ Toggled(TRUE, FALSE) => AudioOff(cur) /\ rest
     /\ Toggled(FALSE, TRUE) => AudioOn(cur) /\ rest

C13_Witness ==
  /\ Toggled(TRUE, FALSE)
  /\ history[Len(history) - 1].arg.resolution # <<>>
  /\ HasKey(history[Len(history) - 1].before, "-an")
  /\ AudioOff(Opts(history[Len(history)].cam))

\* C14: the argument list of a spawned process is the non-empty tokens of
\* source, '-f mpegts -codec:v mpeg1video', every flag of the Option Set in
\* insertion order as name then value (the value left out when it is the
\* empty string), '-q 1 -hide_banner -max_muxing_queue_size 1024 -'; it has no
\* empty token, and a flag with an empty value still contributes its name.
NonEmptyToken(x) == x # <<>>

RawFlags(o) ==
  [i \in 1..(2 * Len(o)) |->
     IF i % 2 = 1 THEN Str(o[(i + 1) \div 2][1]) ELSE o[i \div 2][2]]

ExpectedArgs(so) ==
  SelectSeq(Split(so.source), NonEmptyToken)
  \o <<Str("-f"), Str("mpegts"), Str("-codec:v"), Str("mpeg1video")>>
  \o SelectSeq(RawFlags(so.ffmpegOptions), NonEmptyToken)
  \o <<Str("-q"), Str("1"), Str("-hide_banner"),
       Str("-max_muxing_queue_size"), Str("1024"), Str("-")>>

Spawned == {p \in procs' : p.pid \notin {q.pid : q \in procs}}

C14_ArgumentList ==
  [][\A p \in Spawned :
       LET so == streamOptions[p.cam]
           o == so.ffmpegOptions
       IN /\ p.args = ExpectedArgs(so)
          /\ \A i \in 1..Len(p.args) : p.args[i] # <<>>
          /\ \A i \in 1..Len(o) : o[i][2] = <<>> => Str(o[i][1]) \in Range(p.args)]_vars

C14_Witness ==
  /\ lastCall.spawn = "ok"
  /\ \E p \in procs : /\ p.pid = streamSession[lastCall.cam]
                      /\ Str("-an") \in Range(p.args)
                      /\ Str("-re") \in Range(p.args)

\* C15: setStreamOptions(map) inserts or overwrites exactly the flags of map
\* and delStreamOptions(list) removes exactly the flags of list; both leave
\* source, the handle, the slot, the timers and the running processes (with
\* their argument lists) as they are; a process spawned afterwards is given
\* exactly the flags of the Option Set as it is then.
C15_SetDelFrame ==
  [][\A c \in Cams :
       LET o == Opts(c)
           o2 == streamOptions'[c].ffmpegOptions
           arg == history'[Len(history')].arg
           frame == /\ UNCHANGED <<streamSession, sessions, procs, failed,
                                   nextPid, timers, held>>
                    /\ streamOptions'[c].source = streamOptions[c].source
                    /\ \A d \in Cams \ {c} : streamOptions'[d] = streamOptions[d]
       IN /\ (lastCall'.op = "setStreamOptions" /\ lastCall'.cam = c
              /\ Len(history') > Len(history))
             => /\ frame
                /\ Keys(o2) = Keys(o) \cup Keys(arg)
                /\ \A k \in Keys(arg) : Lookup(o2, k) = Lookup(arg, k)
                /\ \A k \in Keys(o) \ Keys(arg) : Lookup(o2, k) = Lookup(o, k)
                /\ Len(o2) = Cardinality(Keys(o2))
          /\ (lastCall'.op = "delStreamOptions" /\ lastCall'.cam = c
              /\ Len(history') > Len(history))
             => /\ frame
                /\ Keys(o2) = Keys(o) \ Range(arg)
                /\ \A k \in Keys(o2) : Lookup(o2, k) = Lookup(o, k)
                /\ Len(o2) = Cardinality(Keys(o2))
          /\ \A p \in Spawned :
               p.cam = c
               => /\ \A k \in Keys(o) : Str(k) \in Range(p.args)
                  /\ \A k \in {"-an", "-s", "-r", "-codec:a"} \ Keys(o) :
                       Str(k) \notin Range(p.args)
                  /\ \A k \in Keys(o) :
                       Lookup(o, k) # <<>> => Lookup(o, k) \in Range(p.args)]_vars

C15_Witness ==
  /\ lastCall.op = "delStreamOptions"
  /\ Live(lastCall.cam) # {}
  /\ \E i \in 1..Len(history) : history[i].op = "setStreamOptions"
  /\ ~HasKey(Opts(lastCall.cam), "-s")
  /\ \E p \in Live(lastCall.cam) : Str("-s") \in Range(p.args)

\* C18: the value of '-s'
WritesSize(e) ==
  \/ e.op = "setStreamOptions" /\ HasKey(e.arg, "-s")
  \/ e.op = "configureStreamOptions" /\ e.arg.present /\ e.arg.resolution # <<>>

WrittenSize(e) ==
  IF e.op = "setStreamOptions" THEN Lookup(e.arg, "-s") ELSE e.arg.resolution

DeletesSize(e) == e.op = "delStreamOptions" /\ "-s" \in Range(e.arg)

StaticSize(c) ==
  Lookup(IF history = <<>> THEN Opts(c) ELSE history[1].before, "-s")

LastIndex(S) == CHOOSE i \in S : \A j \in S : j <= i

\* C18 (as stated): whatever the order of the calls, '-s' has the value of the
\* last setStreamOptions() that wrote it if there is one, else that of the
\* last configureStreamOptions() with a persisted resolution if there is one,
\* else the static configuration's.
C18_LayerPrecedence ==
  \A c \in Focus :
    LET live == {i \in 1..Len(history) :
                   history[i].op = "setStreamOptions" /\ HasKey(history[i].arg, "-s")}
        persisted == {i \in 1..Len(history) :
                        history[i].op = "configureStreamOptions" /\ WritesSize(history[i])}
    IN (\A i \in 1..Len(history) : ~DeletesSize(history[i]))
       => Lookup(Opts(c), "-s") =
            IF live # {} THEN WrittenSize(history[LastIndex(live)])
            ELSE IF persisted # {} THEN WrittenSize(history[LastIndex(persisted)])
            ELSE StaticSize(c)

\* C18 (amended): '-s' has the value written by the most recent call that
\* wrote it, setStreamOptions() or configureStreamOptions() with a persisted
\* resolution alike (it is absent if delStreamOptions() removed it since), and
\* the static configuration's value if no call touched it.
C18_LastWriterWins ==
  \A c \in Focus :
    LET touch == {i \in 1..Len(history) :
                    WritesSize(history[i]) \/ DeletesSize(history[i])}
    IN Lookup(Opts(c), "-s") =
         IF touch = {} THEN StaticSize(c)
         ELSE IF DeletesSize(history[LastIndex(touch)]) THEN AbsentValue
         ELSE WrittenSize(history[LastIndex(touch)])

C18_Witness ==
  /\ Len(history) >= 2
  /\ history[Len(history)].op = "configureStreamOptions"
  /\ WritesSize(history[Len(history)])
  /\ \E i \in 1..(Len(history) - 1) :
       history[i].op = "setStreamOptions" /\ HasKey(history[i].arg, "-s")
  /\ \E c \in Focus : Lookup(Opts(c), "-s") = history[Len(history)].arg.resolution

\* ------------------------------------------- properties of the output relay
RECURSIVE OnlyPid(_, _)
OnlyPid(s, pid) ==
  IF s = <<>> THEN <<>>
  ELSE IF Head(s).pid = pid THEN <<Head(s)>> \o OnlyPid(Tail(s), pid)
       ELSE OnlyPid(Tail(s), pid)

\* C16: for every child, the chunks published on its camera's channel are its
\* primary-output chunks in the order written, each once (those written and
\* not yet delivered are the rest, in order); a channel carries only chunks of
\* its own camera's primary output; every diagnostic chunk delivered is in the
\* log at error severity and on no channel.
C16_RelayInOrder ==
  /\ \A pid \in Pids :
       \A c \in Cams :
         LET pub == OnlyPid(relay.channel[c], pid)
         IN pub # <<>> \/ (relay.emitted[pid] # <<>> /\ relay.emitted[pid][1].cam = c)
            => pub \o relay.pipeOut[pid] = relay.emitted[pid]
  /\ \A c \in Cams : \A i \in 1..Len(relay.channel[c]) :
       relay.channel[c][i].fd = "stdout" /\ relay.channel[c][i].cam = c
  /\ \A i \in 1..Len(relay.logged) :
       relay.logged[i][2].fd = "stderr" => relay.logged[i][1] = "error"
  /\ \A i \in 1..Len(relay.logged) :
       relay.logged[i][2].fd = "stdout"
       => relay.logged[i][1] = "debug" /\ relay.debug[relay.logged[i][2].cam]

C16_Witness ==
  /\ \E c \in Focus : Len(relay.channel[c]) >= 2
  /\ \E i \in 1..Len(relay.logged) :
       relay.logged[i][2].fd = "stderr" /\ relay.logged[i][1] = "error"
  /\ lastCall.op = "stdoutData"

====
